---- MODULE Spec2Model ----
(***************************************************************************)
(* ERT meter decoders of rtl_433: the Interval Data Message decoder        *)
(* (idm_decode), the Standard Consumption Message Plus decoder             *)
(* (scmp_decode) and the older copy of the latter kept in                  *)
(* src/devices/scmp.c.  A decoder is a function of row 0 of the bit        *)
(* buffer; the state machine around it is the demodulator that fills the   *)
(* row and the dispatcher that calls the decoders and owns the output.     *)
(***************************************************************************)
EXTENDS Integers, Sequences, FiniteSets, TLC

VARIABLES
    int_bits,    \* width of the C type int of the build
    bits,        \* bitbuffer->bits_per_row[0]
    bb,          \* bitbuffer->bb[0], the bytes the row holds
    noise,       \* what the channel did to the transmitted frame
    res,         \* per decoder: the result of its invocation on this row
    n_calls,     \* decode invocations so far
    n_decoded,   \* invocations that returned 1
    n_output     \* records handed to decoder_output_data

vars == <<int_bits, bits, bb, noise, res, n_calls, n_decoded, n_output>>

----------------------------------------------------------------------------
(* Bounds of the model.                                                    *)

MaxCalls == 2       \* decode invocations in one behaviour
NumSeeds == 1       \* generated payloads besides the documented examples
NoiseSpan == 16     \* leading bytes of a frame the channel may hit

----------------------------------------------------------------------------
(* C integer arithmetic on non-negative integers.                          *)

RECURSIVE BitAnd(_, _)
BitAnd(x, y) ==
    IF x = 0 \/ y = 0 THEN 0
    ELSE (x % 2) * (y % 2) + 2 * BitAnd(x \div 2, y \div 2)

RECURSIVE BitOr(_, _)
BitOr(x, y) ==
    IF x = 0 THEN y
    ELSE IF y = 0 THEN x
    ELSE (IF x % 2 = 1 \/ y % 2 = 1 THEN 1 ELSE 0) + 2 * BitOr(x \div 2, y \div 2)

\* x ^ y, a nibble at a time: the table of the 4-bit case, then the four
\* nibbles of 16-bit operands.
RECURSIVE BitXorBits(_, _)
BitXorBits(x, y) ==
    IF x = 0 THEN y
    ELSE IF y = 0 THEN x
    ELSE ((x + y) % 2) + 2 * BitXorBits(x \div 2, y \div 2)

Xor4 == [x \in 0..15 |-> [y \in 0..15 |-> BitXorBits(x, y)]]

BitXor(x, y) ==
    Xor4[x % 16][y % 16]
    + 16 * Xor4[(x \div 16) % 16][(y \div 16) % 16]
    + 256 * Xor4[(x \div 256) % 16][(y \div 256) % 16]
    + 4096 * Xor4[(x \div 4096) % 16][(y \div 4096) % 16]

Shl(x, n) == x * 2^n
Shr(x, n) == x \div 2^n

U8(x) == x % 256
U16(x) == x % 65536

\* b[i] of the C code: the row is a sequence, the C index starts at 0.
At(b, i) == b[i + 1]

(* A 32-bit quantity does not fit a TLC integer.  An integer v of up to 32  *)
(* bits is kept as [q, r] with v = q * 2^16 + r and 0 <= r < 2^16; it is    *)
(* negative exactly when q < 0.                                            *)
Wide(q, r) == [q |-> q, r |-> r]

\* x << n on int operands, stored to a uint32_t: the low 32 bits.  With a
\* 32-bit int, b[4] << 24 overflows for b[4] >= 0x80; the compilers wrap, and
\* the conversion to uint32_t gives the same bits.
Shl32(x, n) ==
    IF n >= 16 THEN Wide(U16(Shl(x, n - 16)), 0)
    ELSE Wide(U16(Shr(x, 16 - n)), U16(Shl(x, n)))

\* v | w on 32-bit operands.
Or32(v, w) == Wide(BitOr(v.q, w.q), BitOr(v.r, w.r))

\* A uint8_t or uint16_t as a 32-bit quantity.
W(x) == Wide(0, x)

\* The value data_make stores for a DATA_INT argument: the argument read as
\* a C int (va_arg(ap, int)).  A uint8_t or uint16_t is promoted to int
\* unchanged.  A uint32_t from 2^31 on does not fit a 32-bit int and is read
\* as the two's complement value v - 2^32; it fits a 64-bit int.  int_bits
\* is the int of the build, left open.
DATA_INT(w) ==
    IF int_bits = 32 /\ w.q >= 32768 THEN Wide(w.q - 65536, w.r) ELSE w

----------------------------------------------------------------------------
(* crc16 of util.c: bit by bit, most significant bit first.  The two loops  *)
(* are functions of the running remainder and the loop counter.            *)

crc16(message, nBytes, polynomial, init) ==
    LET by_bit[remainder \in 0..65535, bit \in 0..8] ==
            IF bit = 8 THEN remainder
            ELSE by_bit[IF remainder >= 32768
                        THEN BitXor(U16(Shl(remainder, 1)), polynomial)
                        ELSE U16(Shl(remainder, 1)),
                        bit + 1]
        by_byte[remainder \in 0..65535, byte \in 0..nBytes] ==
            IF byte = nBytes THEN remainder
            ELSE by_byte[by_bit[BitXor(remainder, Shl(message[byte + 1], 8)), 0],
                       byte + 1]
    IN  by_byte[init, 0]

----------------------------------------------------------------------------
(* Return values of a decoder and the pieces of a record.  The three       *)
(* DECODE_ codes are the negative values decoder.h gives them; the         *)
(* properties use only that they differ from each other and from 1.        *)

DECODE_ABORT_LENGTH == -1
DECODE_ABORT_EARLY == -2
DECODE_FAIL_MIC == -3
DECODED == 1

\* One key / type / value triple of data_make (the pretty label is left out).
Field(key, type, value) == [key |-> key, type |-> type, value |-> value]

\* What an invocation did: its return value, the indices of b it read, the
\* stages it went through and the records it gave to decoder_output_data.
Result(ret, reads, trace, out) ==
    [ret |-> ret, reads |-> reads, trace |-> trace, out |-> out]

\* for (i = 0; i < sizeof(PREAMBLE); i++) if (PREAMBLE[i] != b[i]) return:
\* the index at which the loop stops, sizeof(PREAMBLE) when it runs through.
\* Mutant: the loop bound is one short, the last preamble byte is not compared.
RECURSIVE PreambleScan_last_unchecked(_, _, _)
PreambleScan_last_unchecked(preamble, b, i) ==
    IF i >= Len(preamble) - 1 THEN Len(preamble)
    ELSE IF preamble[i + 1] # At(b, i) THEN i
    ELSE PreambleScan_last_unchecked(preamble, b, i + 1)

RECURSIVE PreambleScan(_, _, _)
PreambleScan(preamble, b, i) ==
    IF i = Len(preamble) THEN i
    ELSE IF preamble[i + 1] # At(b, i) THEN i
    ELSE PreambleScan(preamble, b, i + 1)

hex == <<"0", "1", "2", "3", "4", "5", "6", "7",
         "8", "9", "A", "B", "C", "D", "E", "F">>

\* Mutant: the low nibble is written first.
strData_low_first(b, n) ==
    [j \in 1..(2 * n) |->
        IF (j - 1) % 2 = 0
        THEN hex[BitAnd(At(b, (j - 1) \div 2), 15) + 1]
        ELSE hex[BitAnd(Shr(At(b, (j - 1) \div 2), 4), 15) + 1]]

\* strData[i*2] = hex[(b[i]>>4) & 0xF]; strData[i*2+1] = hex[b[i] & 0x0F];
strData(b, n) ==
    [j \in 1..(2 * n) |->
        IF (j - 1) % 2 = 0
        THEN hex[BitAnd(Shr(At(b, (j - 1) \div 2), 4), 15) + 1]
        ELSE hex[BitAnd(At(b, (j - 1) \div 2), 15) + 1]]

----------------------------------------------------------------------------
(* idm_decode                                                              *)

IDM_LEN == 92
IDM_PREAMBLE == <<85, 85, 22, 163, 28, 92, 198>>

\* Mutant: "consumption" is advertised before "generation".
idm_output_fields_swapped ==
    <<"model", "id", "version", "idm_type", "consumption_interval",
      "programming_state", "consumption", "generation", "net", "sn_crc",
      "packet_crc", "codes", "mic">>

idm_output_fields ==
    <<"model", "id", "version", "idm_type", "consumption_interval",
      "programming_state", "generation", "consumption", "net", "sn_crc",
      "packet_crc", "codes", "mic">>

\* app_version = b[7];
idm_app_version(b) == U8(At(b, 7))

\* idm_type = b[8] & 0x0F;
idm_type(b) == U8(BitAnd(At(b, 8), 15))

\* ert_id = (b[9]<<24) | (b[10]<<16) | (b[11]<<8) | b[12];
idm_ert_id(b) ==
    Or32(Or32(Or32(Shl32(At(b, 9), 24), Shl32(At(b, 10), 16)),
              Shl32(At(b, 11), 8)), W(At(b, 12)))

\* consumption_interval_count = b[13];
idm_consumption_interval_count(b) == U8(At(b, 13))

\* programming_state = b[14];
idm_programming_state(b) == U8(At(b, 14))

\* last_consumption = (b[25]<<16) | (b[26]<<8) | b[27];
idm_last_consumption(b) ==
    Or32(Or32(Shl32(At(b, 25), 16), Shl32(At(b, 26), 8)), W(At(b, 27)))

\* last_generation = (b[28]<<16) | (b[29]<<8) | b[30];
idm_last_generation(b) ==
    Or32(Or32(Shl32(At(b, 28), 16), Shl32(At(b, 29), 8)), W(At(b, 30)))

\* last_consumption_net = (b[34]<<24) | (b[35]<<16) | (b[36]<<8) | b[37];
idm_last_consumption_net(b) ==
    Or32(Or32(Or32(Shl32(At(b, 34), 24), Shl32(At(b, 35), 16)),
              Shl32(At(b, 36), 8)), W(At(b, 37)))

\* Mutant: the serial number checksum is taken from the packet checksum.
idm_sn_crc_from_packet(b) == U16(BitOr(Shl(At(b, 90), 8), At(b, 91)))

\* sn_crc = (b[88]<<8) | b[89];
idm_sn_crc(b) == U16(BitOr(Shl(At(b, 88), 8), At(b, 89)))

\* packet_crc = (b[90]<<8) | b[91];
idm_packet_crc(b) == U16(BitOr(Shl(At(b, 90), 8), At(b, 91)))

idm_data(b) ==
    << Field("model", "DATA_STRING", "netIDM"),
       Field("id", "DATA_INT", DATA_INT(idm_ert_id(b))),
       Field("version", "DATA_INT", DATA_INT(W(idm_app_version(b)))),
       Field("idm_type", "DATA_INT", DATA_INT(W(idm_type(b)))),
       Field("consumption_interval", "DATA_INT",
             DATA_INT(W(idm_consumption_interval_count(b)))),
       Field("programming_state", "DATA_INT",
             DATA_INT(W(idm_programming_state(b)))),
       Field("generation", "DATA_INT", DATA_INT(idm_last_generation(b))),
       Field("consumption", "DATA_INT", DATA_INT(idm_last_consumption(b))),
       Field("net", "DATA_INT", DATA_INT(idm_last_consumption_net(b))),
       Field("sn_crc", "DATA_INT", DATA_INT(W(idm_sn_crc(b)))),
       Field("packet_crc", "DATA_INT", DATA_INT(W(idm_packet_crc(b)))),
       Field("codes", "DATA_STRING", strData(b, IDM_LEN)),
       Field("mic", "DATA_STRING", "CRC") >>

idm_decode(bits_per_row, b) ==
    IF bits_per_row # IDM_LEN * 8
    THEN Result(DECODE_ABORT_LENGTH, {}, <<"length">>, <<>>)
    ELSE LET i == PreambleScan(IDM_PREAMBLE, b, 0) IN
         IF i < Len(IDM_PREAMBLE)
         THEN Result(DECODE_ABORT_EARLY, 0..i, <<"length", "preamble">>, <<>>)
         ELSE Result(DECODED, 0..(IDM_LEN - 1),
                     <<"length", "preamble", "extract", "data_make",
                       "decoder_output_data">>,
                     <<idm_data(b)>>)

----------------------------------------------------------------------------
(* scmp_decode, and its older copy in src/devices/scmp.c                   *)

SCMP_LEN == 16
SCMP_PREAMBLE == <<22, 163>>

scmp_output_fields ==
    <<"model", "scm_protocol", "scm_type", "id", "consumption_data", "tamper",
      "crc", "calc_crc", "codes", "mic">>

legacy_output_fields ==
    <<"model", "protocol", "scm_type", "id", "consumption", "tamper",
      "crc", "calc_crc", "raw", "mic">>

\* crc = (b[14] << 8) | b[15];
scmp_crc(b) == U16(BitOr(Shl(At(b, 14), 8), At(b, 15)))

\* Mutant: crc16(&b[2], 12, 0x1021, 0), no initial value and no final XOR.
scmp_calc_crc_init0(b) == crc16(SubSeq(b, 3, 14), 12, 4129, 0)

\* uint16_t calc_crc = crc16(&b[2], 12, 0x1021, 0xFFFF) ^ 0xFFFF;
scmp_calc_crc(b) ==
    U16(BitXor(crc16(SubSeq(b, 3, 14), 12, 4129, 65535), 65535))

\* protocol = b[2]; scm_type = b[3];
scmp_protocol(b) == U8(At(b, 2))
scmp_type(b) == U8(At(b, 3))

scmp_ert_id(b) ==
    Or32(Or32(Or32(Shl32(At(b, 4), 24), Shl32(At(b, 5), 16)),
              Shl32(At(b, 6), 8)), W(At(b, 7)))

scmp_consumption(b) ==
    Or32(Or32(Or32(Shl32(At(b, 8), 24), Shl32(At(b, 9), 16)),
              Shl32(At(b, 10), 8)), W(At(b, 11)))

scmp_tamper(b) == U16(BitOr(Shl(At(b, 12), 8), At(b, 13)))

scmp_data(b, crc, calc_crc) ==
    << Field("model", "DATA_STRING", "SCMplus"),
       Field("scm_protocol", "DATA_INT", DATA_INT(W(scmp_protocol(b)))),
       Field("scm_type", "DATA_INT", DATA_INT(W(scmp_type(b)))),
       Field("id", "DATA_INT", DATA_INT(scmp_ert_id(b))),
       Field("consumption_data", "DATA_INT", DATA_INT(scmp_consumption(b))),
       Field("tamper", "DATA_INT", DATA_INT(W(scmp_tamper(b)))),
       Field("crc", "DATA_INT", DATA_INT(W(crc))),
       Field("calc_crc", "DATA_INT", DATA_INT(W(calc_crc))),
       Field("codes", "DATA_STRING", strData(b, SCMP_LEN)),
       Field("mic", "DATA_STRING", "CRC") >>

\* Mutant: the record is handed to decoder_output_data before the checksums
\* are compared.
scmp_decode_output_first(bits_per_row, b) ==
    IF bits_per_row # SCMP_LEN * 8
    THEN Result(DECODE_ABORT_LENGTH, {}, <<"length">>, <<>>)
    ELSE LET i == PreambleScan(SCMP_PREAMBLE, b, 0) IN
         IF i < Len(SCMP_PREAMBLE)
         THEN Result(DECODE_ABORT_EARLY, 0..i, <<"length", "preamble">>, <<>>)
         ELSE LET crc == scmp_crc(b)
                  calc_crc == scmp_calc_crc(b)
              IN  IF crc # calc_crc
                  THEN Result(DECODE_FAIL_MIC, 0..(SCMP_LEN - 1),
                              <<"length", "preamble", "crc16", "extract",
                                "data_make", "decoder_output_data", "compare">>,
                              <<scmp_data(b, crc, calc_crc)>>)
                  ELSE Result(DECODED, 0..(SCMP_LEN - 1),
                              <<"length", "preamble", "crc16", "extract",
                                "data_make", "decoder_output_data", "compare">>,
                              <<scmp_data(b, crc, calc_crc)>>)

\* Mutant: only a row shorter than the frame is refused.
scmp_decode_longer_accepted(bits_per_row, b) ==
    IF bits_per_row < SCMP_LEN * 8
    THEN Result(DECODE_ABORT_LENGTH, {}, <<"length">>, <<>>)
    ELSE LET i == PreambleScan(SCMP_PREAMBLE, b, 0) IN
         IF i < Len(SCMP_PREAMBLE)
         THEN Result(DECODE_ABORT_EARLY, 0..i, <<"length", "preamble">>, <<>>)
         ELSE LET crc == scmp_crc(b)
                  calc_crc == scmp_calc_crc(b)
              IN  IF crc # calc_crc
                  THEN Result(DECODE_FAIL_MIC, 0..(SCMP_LEN - 1),
                              <<"length", "preamble", "crc16", "compare">>, <<>>)
                  ELSE Result(DECODED, 0..(SCMP_LEN - 1),
                              <<"length", "preamble", "crc16", "compare",
                                "extract", "data_make", "decoder_output_data">>,
                              <<scmp_data(b, crc, calc_crc)>>)

scmp_decode(bits_per_row, b) ==
    IF bits_per_row # SCMP_LEN * 8
    THEN Result(DECODE_ABORT_LENGTH, {}, <<"length">>, <<>>)
    ELSE LET i == PreambleScan(SCMP_PREAMBLE, b, 0) IN
         IF i < Len(SCMP_PREAMBLE)
         THEN Result(DECODE_ABORT_EARLY, 0..i, <<"length", "preamble">>, <<>>)
         ELSE LET crc == scmp_crc(b)
                  calc_crc == scmp_calc_crc(b)
              IN  IF crc # calc_crc
                  THEN Result(DECODE_FAIL_MIC, 0..(SCMP_LEN - 1),
                              <<"length", "preamble", "crc16", "compare">>, <<>>)
                  ELSE Result(DECODED, 0..(SCMP_LEN - 1),
                              <<"length", "preamble", "crc16", "compare",
                                "extract", "data_make", "decoder_output_data">>,
                              <<scmp_data(b, crc, calc_crc)>>)

\* crc = (b[14]<<8) | b[15];
legacy_crc(b) == U16(BitOr(Shl(At(b, 14), 8), At(b, 15)))

\* Mutant: the variant left in a comment, crc16(&b[2], 12, 0x1021, 0).
legacy_calc_crc_init0(b) == crc16(SubSeq(b, 3, 14), 12, 4129, 0)

\* uint16_t calc_crc = crc16(&b[2], 12, 0x1021, 0xFFFF) ^ 0xFFFF;
legacy_calc_crc(b) ==
    U16(BitXor(crc16(SubSeq(b, 3, 14), 12, 4129, 65535), 65535))

legacy_protocol(b) == U8(At(b, 2))
legacy_type(b) == U8(At(b, 3))

legacy_ert_id(b) ==
    Or32(Or32(Or32(Shl32(At(b, 4), 24), Shl32(At(b, 5), 16)),
              Shl32(At(b, 6), 8)), W(At(b, 7)))

legacy_consumption(b) ==
    Or32(Or32(Or32(Shl32(At(b, 8), 24), Shl32(At(b, 9), 16)),
              Shl32(At(b, 10), 8)), W(At(b, 11)))

legacy_tamper(b) == U16(BitOr(Shl(At(b, 12), 8), At(b, 13)))

legacy_data(b, crc, calc_crc) ==
    << Field("model", "DATA_STRING", "SCM+"),
       Field("protocol", "DATA_INT", DATA_INT(W(legacy_protocol(b)))),
       Field("scm_type", "DATA_INT", DATA_INT(W(legacy_type(b)))),
       Field("id", "DATA_INT", DATA_INT(legacy_ert_id(b))),
       Field("consumption", "DATA_INT", DATA_INT(legacy_consumption(b))),
       Field("tamper", "DATA_INT", DATA_INT(W(legacy_tamper(b)))),
       Field("crc", "DATA_INT", DATA_INT(W(crc))),
       Field("calc_crc", "DATA_INT", DATA_INT(W(calc_crc))),
       Field("raw", "DATA_STRING", strData(b, SCMP_LEN)),
       Field("mic", "DATA_STRING", "CRC") >>

legacy_scmp_decode(bits_per_row, b) ==
    IF bits_per_row # SCMP_LEN * 8
    THEN Result(DECODE_ABORT_LENGTH, {}, <<"length">>, <<>>)
    ELSE LET i == PreambleScan(SCMP_PREAMBLE, b, 0) IN
         IF i < Len(SCMP_PREAMBLE)
         THEN Result(DECODE_ABORT_EARLY, 0..i, <<"length", "preamble">>, <<>>)
         ELSE Result(DECODED, 0..(SCMP_LEN - 1),
                     <<"length", "preamble", "crc16", "extract", "data_make",
                       "decoder_output_data">>,
                     <<legacy_data(b, legacy_crc(b), legacy_calc_crc(b))>>)

----------------------------------------------------------------------------
(* The frames a meter transmits (the "Data layout" tables).                *)

\* Byte i of the generated payload number seed: all bytes of one payload
\* differ, so that a byte taken from the wrong offset shows.
Pattern(seed, i) == (seed * 101 + i * (16 * seed + 7)) % 256

\* Protocol ID .. Tamper of an SCM+ message: 12 bytes.
ScmpPayloads ==
    { <<30, 7, 170, 187, 204, 221, 0, 0, 18, 52, 0, 0>>,
      <<30, 12, 1, 2, 3, 4, 128, 0, 0, 1, 255, 254>> }
    \cup { [i \in 1..12 |-> Pattern(seed, i + 1)] : seed \in 1..NumSeeds }

\* Frame Sync, the payload, Packet Checksum (CRC-16-CCITT from Protocol ID).
ScmpFrame(payload) ==
    LET c == BitXor(crc16(payload, 12, 4129, 65535), 65535)
    IN  SCMP_PREAMBLE \o payload \o <<Shr(c, 8), BitAnd(c, 255)>>

\* Application Version .. Packet Checksum of an IDM: 85 bytes; each
\* generated payload and its complement.
IdmPayloads ==
    UNION { { [i \in 1..(IDM_LEN - 7) |-> Pattern(seed, i + 6)],
              [i \in 1..(IDM_LEN - 7) |-> 255 - Pattern(seed, i + 6)] }
            : seed \in 1..NumSeeds }

IdmFrame(payload) == IDM_PREAMBLE \o payload

Frames ==
    { ScmpFrame(p) : p \in ScmpPayloads } \cup { IdmFrame(p) : p \in IdmPayloads }

\* Bit lengths the demodulator may report for a row.
RowBits ==
    { 0, 8, SCMP_LEN * 8 - 8, SCMP_LEN * 8 - 1, SCMP_LEN * 8, SCMP_LEN * 8 + 1,
      SCMP_LEN * 8 + 8, IDM_LEN * 8 - 8, IDM_LEN * 8 - 1, IDM_LEN * 8,
      IDM_LEN * 8 + 1, IDM_LEN * 8 + 8 }

----------------------------------------------------------------------------
(* The state machine.                                                      *)

Decoders == {"idm_decode", "scmp_decode", "legacy_scmp_decode"}

NotRun == Result(0, {}, <<>>, <<>>)

Ran(d) == res[d].trace # <<>>

Clean == [kind |-> "none", byte |-> 0, bit |-> 0]

Init ==
    /\ int_bits \in {32, 64}
    /\ \E f \in Frames : bits = 8 * Len(f) /\ bb = f
    /\ noise = Clean
    /\ res = [d \in Decoders |-> NotRun]
    /\ n_calls = 0
    /\ n_decoded = 0
    /\ n_output = 0

\* The row has been through the dispatcher: the demodulator delivers the
\* next one, a frame as transmitted.
Receive(f) ==
    /\ \E d \in Decoders : Ran(d)
    /\ n_calls < MaxCalls
    /\ bits' = 8 * Len(f)
    /\ bb' = f
    /\ noise' = Clean
    /\ res' = [d \in Decoders |-> NotRun]
    /\ UNCHANGED <<int_bits, n_calls, n_decoded, n_output>>

\* The channel inverts bit k of byte i of the row before it is decoded.
FlipBit(i, k) ==
    /\ noise = Clean
    /\ \A d \in Decoders : ~Ran(d)
    /\ i < Len(bb)
    /\ bb' = [bb EXCEPT ![i + 1] = BitXor(@, 2^k)]
    /\ noise' = [kind |-> "flip", byte |-> i, bit |-> k]
    /\ UNCHANGED <<int_bits, bits, res, n_calls, n_decoded, n_output>>

\* The demodulator cuts the row short or runs past the frame: n bits, the
\* bytes past the frame zero.
Resize(n) ==
    /\ noise = Clean
    /\ \A d \in Decoders : ~Ran(d)
    /\ n # bits
    /\ bits' = n
    /\ bb' = [j \in 1..((n + 7) \div 8) |-> IF j <= Len(bb) THEN bb[j] ELSE 0]
    /\ noise' = [kind |-> "resize", byte |-> 0, bit |-> 0]
    /\ UNCHANGED <<int_bits, res, n_calls, n_decoded, n_output>>

\* The dispatcher calls decoder d on the row; decoder_output_data counts
\* the records, the dispatcher the successful decodes.
Invoke(d, r) ==
    /\ ~Ran(d)
    /\ n_calls < MaxCalls
    /\ res' = [res EXCEPT ![d] = r]
    /\ n_calls' = n_calls + 1
    /\ n_decoded' = n_decoded + (IF r.ret = DECODED THEN 1 ELSE 0)
    /\ n_output' = n_output + Len(r.out)
    /\ UNCHANGED <<int_bits, bits, bb, noise>>

IdmDecode == Invoke("idm_decode", idm_decode(bits, bb))

ScmpDecode == Invoke("scmp_decode", scmp_decode(bits, bb))

LegacyScmpDecode == Invoke("legacy_scmp_decode", legacy_scmp_decode(bits, bb))

Next ==
    \/ \E f \in Frames : Receive(f)
    \/ \E i \in 0..(NoiseSpan - 1), k \in 0..7 : FlipBit(i, k)
    \/ \E n \in RowBits : Resize(n)
    \/ IdmDecode
    \/ ScmpDecode
    \/ LegacyScmpDecode

Spec == Init /\ [][Next]_vars

----------------------------------------------------------------------------
(* Vocabulary of the properties: the documented constants, written out     *)
(* here independently of the decoders' own tables.                         *)

Consumption == {"scmp_decode", "legacy_scmp_decode"}

DocLen(d) == IF d = "idm_decode" THEN 92 ELSE 16

DocPreamble(d) ==
    IF d = "idm_decode" THEN <<85, 85, 22, 163, 28, 92, 198>> ELSE <<22, 163>>

\* The row has the decoder's frame length and starts with its preamble.
RightLength(d) == bits = DocLen(d) * 8

PreambleDiffers(d) ==
    \E i \in 1..Len(DocPreamble(d)) : bb[i] # DocPreamble(d)[i]

\* The record decoder d emitted, its keys, and the value under a key.
Rec(d) == res[d].out[1]

Keys(data) == [i \in 1..Len(data) |-> data[i].key]

Value(data, key) == data[CHOOSE i \in 1..Len(data) : data[i].key = key].value

Emitted(d) == Ran(d) /\ res[d].ret = DECODED

\* Big-endian value of the n bytes of the row from offset i, as q * 2^16 + r.
BigEndian(i, n) ==
    IF n = 1 THEN Wide(0, At(bb, i))
    ELSE IF n = 2 THEN Wide(0, At(bb, i) * 256 + At(bb, i + 1))
    ELSE IF n = 3 THEN Wide(At(bb, i), At(bb, i + 1) * 256 + At(bb, i + 2))
    ELSE Wide(At(bb, i) * 256 + At(bb, i + 1), At(bb, i + 2) * 256 + At(bb, i + 3))

----------------------------------------------------------------------------
\* C1: every decoder, called on a row whose bit length differs from its
\* fixed frame length times 8 (shorter or longer), returns
\* DECODE_ABORT_LENGTH, has read no byte of the row and has emitted nothing.
C1_LengthMismatch ==
    \A d \in Decoders :
        (Ran(d) /\ ~RightLength(d)) =>
            /\ res[d].ret = DECODE_ABORT_LENGTH
            /\ res[d].reads = {}
            /\ res[d].out = <<>>

\* Both consumption decoders have refused a row one bit short of a frame.
C1_Witness ==
    /\ bits = 127
    /\ \A d \in Consumption : Ran(d) /\ res[d].ret = DECODE_ABORT_LENGTH

\* C2: on a row of the right length a decoder returns DECODE_ABORT_EARLY
\* exactly when one of the leading bytes differs from the literal preamble;
\* it has then compared no checksum, read nothing past the preamble and
\* emitted nothing.
C2_PreambleMismatch ==
    \A d \in Decoders :
        (Ran(d) /\ RightLength(d)) =>
            /\ res[d].ret = DECODE_ABORT_EARLY <=> PreambleDiffers(d)
            /\ res[d].ret = DECODE_ABORT_EARLY =>
                    /\ res[d].out = <<>>
                    /\ res[d].reads \subseteq 0..(Len(DocPreamble(d)) - 1)
                    /\ \A i \in 1..Len(res[d].trace) :
                            res[d].trace[i] \in {"length", "preamble"}

\* idm_decode has refused a 92-byte row whose last preamble byte is hit.
C2_Witness ==
    /\ bits = 736
    /\ noise.kind = "flip" /\ noise.byte = 6
    /\ Ran("idm_decode") /\ res["idm_decode"].ret = DECODE_ABORT_EARLY

OutputFields(d) ==
    IF d = "idm_decode" THEN idm_output_fields
    ELSE IF d = "scmp_decode" THEN scmp_output_fields
    ELSE legacy_output_fields

\* The documented record of a message type: its keys and its model string.
DocFields(d) ==
    IF d = "idm_decode"
    THEN <<"model", "id", "version", "idm_type", "consumption_interval",
           "programming_state", "generation", "consumption", "net", "sn_crc",
           "packet_crc", "codes", "mic">>
    ELSE <<"model", "scm_protocol", "scm_type", "id", "consumption_data",
           "tamper", "crc", "calc_crc", "codes", "mic">>

DocModel(d) == IF d = "idm_decode" THEN "netIDM" ELSE "SCMplus"

HasKey(data, key) == \E i \in 1..Len(data) : data[i].key = key

\* C4 as stated: every decoded record of either message type holds the
\* checksum as received and the checksum as computed, the computation
\* having run for the interval message too.
C4_Original ==
    \A d \in Decoders :
        Emitted(d) =>
            /\ \E i \in 1..Len(res[d].trace) : res[d].trace[i] = "crc16"
            /\ HasKey(Rec(d), "calc_crc")

\* C4 amended: a decoded consumption record (revised or legacy) holds crc,
\* bytes 14..15 as received, and calc_crc, computed by crc16 and equal to
\* the transmitted checksum on an undisturbed frame; a decoded interval
\* record holds the two received checksums sn_crc (bytes 88..89) and
\* packet_crc (bytes 90..91) and no computed one: idm_decode calls no crc16.
C4_ChecksumFields ==
    /\ \A d \in Consumption :
            Emitted(d) =>
                /\ \E i \in 1..Len(res[d].trace) : res[d].trace[i] = "crc16"
                /\ Value(Rec(d), "crc") = BigEndian(14, 2)
                /\ HasKey(Rec(d), "calc_crc")
                /\ noise = Clean => Value(Rec(d), "calc_crc") = BigEndian(14, 2)
    /\ Emitted("idm_decode") =>
            /\ \A i \in 1..Len(res["idm_decode"].trace) :
                    res["idm_decode"].trace[i] # "crc16"
            /\ ~HasKey(Rec("idm_decode"), "calc_crc")
            /\ Value(Rec("idm_decode"), "sn_crc") = BigEndian(88, 2)
            /\ Value(Rec("idm_decode"), "packet_crc") = BigEndian(90, 2)

\* idm_decode has emitted the record of an undisturbed interval message.
C4_Witness == Emitted("idm_decode") /\ noise = Clean

\* C5: the fields of a decoded consumption record are the big-endian
\* unsigned values of their bytes: scm_protocol b[2], scm_type b[3], id
\* b[4..7], consumption_data b[8..11], tamper b[12..13], crc b[14..15],
\* non-negative also when the most significant byte is 0x80 or more.
C5_BigEndianUnsigned ==
    \A d \in Consumption :
        Emitted(d) =>
            /\ Rec(d)[2].value = BigEndian(2, 1)
            /\ Rec(d)[3].value = BigEndian(3, 1)
            /\ Rec(d)[4].value = BigEndian(4, 4)
            /\ Rec(d)[5].value = BigEndian(8, 4)
            /\ Rec(d)[6].value = BigEndian(12, 2)
            /\ Rec(d)[7].value = BigEndian(14, 2)
            /\ \A i \in 2..7 : Rec(d)[i].value.q >= 0

\* C6 as stated: the keys of every record equal the emitting decoder's
\* advertised list and the list documented for its message type.
C6_Original ==
    \A d \in Decoders :
        Emitted(d) =>
            /\ Keys(Rec(d)) = OutputFields(d)
            /\ Keys(Rec(d)) = DocFields(d)
            /\ Value(Rec(d), "model") = DocModel(d)

\* C6 amended: the keys of every record equal, in order, the emitting
\* decoder's advertised list; for idm_decode and the revised scmp_decode
\* that is the documented list, with model "netIDM" and "SCMplus"; the
\* legacy scmp_decode emits and advertises model ("SCM+"), protocol,
\* scm_type, id, consumption, tamper, crc, calc_crc, raw, mic.
C6_RecordKeys ==
    \A d \in Decoders :
        Emitted(d) =>
            /\ Keys(Rec(d)) = OutputFields(d)
            /\ Value(Rec(d), "mic") = "CRC"
            /\ d # "legacy_scmp_decode" =>
                    /\ Keys(Rec(d)) = DocFields(d)
                    /\ Value(Rec(d), "model") = DocModel(d)
            /\ d = "legacy_scmp_decode" =>
                    /\ Keys(Rec(d)) =
                           <<"model", "protocol", "scm_type", "id", "consumption",
                             "tamper", "crc", "calc_crc", "raw", "mic">>
                    /\ Value(Rec(d), "model") = "SCM+"

\* Both consumption decoders have emitted a record for the same row.
C6_Witness == Emitted("scmp_decode") /\ Emitted("legacy_scmp_decode")

UpperHex ==
    <<"0", "1", "2", "3", "4", "5", "6", "7",
      "8", "9", "A", "B", "C", "D", "E", "F">>

HexValue(c) == (CHOOSE n \in 1..16 : UpperHex[n] = c) - 1

\* The bytes a hex string stands for.
FromHex(str) ==
    [i \in 1..(Len(str) \div 2) |->
        16 * HexValue(str[2 * i - 1]) + HexValue(str[2 * i])]

DumpKey(d) == IF d = "legacy_scmp_decode" THEN "raw" ELSE "codes"

\* C7: the hex dump of a decoded frame has two characters per frame byte
\* (32 or 184), all in 0-9 and A-F, the high nibble of byte i at 2i and the
\* low nibble at 2i+1, and read back as bytes it is the row.
C7_HexDump ==
    \A d \in Decoders :
        Emitted(d) =>
            LET str == Value(Rec(d), DumpKey(d)) IN
            /\ Len(str) = 2 * DocLen(d)
            /\ \A j \in 1..Len(str) : \E n \in 1..16 : str[j] = UpperHex[n]
            /\ \A i \in 0..(DocLen(d) - 1) :
                    /\ str[2 * i + 1] = UpperHex[(At(bb, i) \div 16) + 1]
                    /\ str[2 * i + 2] = UpperHex[(At(bb, i) % 16) + 1]
            /\ FromHex(str) = bb

\* idm_decode has emitted a 184-character dump.
C7_Witness ==
    /\ Emitted("idm_decode")
    /\ Len(Value(Rec("idm_decode"), "codes")) = 184

\* C8: every 92-byte row with the 7-byte preamble is decoded, and its
\* record holds version b[7], idm_type b[8] AND 0x0F, id b[9..12],
\* consumption_interval b[13], programming_state b[14], generation
\* b[28..30], consumption b[25..27], net b[34..37], sn_crc b[88..89] and
\* packet_crc b[90..91], each big-endian under its own key.
C8_IdmLayout ==
    (Ran("idm_decode") /\ RightLength("idm_decode")
        /\ ~PreambleDiffers("idm_decode")) =>
        /\ Emitted("idm_decode")
        /\ LET data == Rec("idm_decode") IN
            /\ Value(data, "version") = BigEndian(7, 1)
            /\ Value(data, "idm_type") = Wide(0, At(bb, 8) % 16)
            /\ Value(data, "id") = BigEndian(9, 4)
            /\ Value(data, "consumption_interval") = BigEndian(13, 1)
            /\ Value(data, "programming_state") = BigEndian(14, 1)
            /\ Value(data, "generation") = BigEndian(28, 3)
            /\ Value(data, "consumption") = BigEndian(25, 3)
            /\ Value(data, "net") = BigEndian(34, 4)
            /\ Value(data, "sn_crc") = BigEndian(88, 2)
            /\ Value(data, "packet_crc") = BigEndian(90, 2)

\* C9: on the same row the legacy and the revised scmp_decode return the
\* same outcome and the same values of protocol, type, id, consumption,
\* tamper, crc, calc_crc and hex dump, except on a row of the right length
\* and sync whose crc differs from calc_crc: there the revised decoder
\* returns DECODE_FAIL_MIC and emits nothing, and the legacy decoder, which
\* never returns DECODE_FAIL_MIC, emits a record whose crc and calc_crc
\* differ.
C9_LegacyVersusRevised ==
    LET r == res["scmp_decode"]
        l == res["legacy_scmp_decode"]
    IN  /\ Ran("legacy_scmp_decode") => l.ret # DECODE_FAIL_MIC
        /\ (Ran("scmp_decode") /\ Ran("legacy_scmp_decode")) =>
            /\ r.ret \in {DECODE_ABORT_LENGTH, DECODE_ABORT_EARLY} =>
                    l.ret = r.ret /\ l.out = <<>> /\ r.out = <<>>
            /\ r.ret = DECODED =>
                    /\ l.ret = DECODED
                    /\ \A i \in 2..9 : l.out[1][i].value = r.out[1][i].value
                    /\ Value(l.out[1], "crc") = Value(l.out[1], "calc_crc")
            /\ r.ret = DECODE_FAIL_MIC =>
                    /\ RightLength("scmp_decode")
                    /\ ~PreambleDiffers("scmp_decode")
                    /\ r.out = <<>>
                    /\ l.ret = DECODED
                    /\ Value(l.out[1], "crc") # Value(l.out[1], "calc_crc")
            /\ r.ret \in {DECODE_ABORT_LENGTH, DECODE_ABORT_EARLY,
                           DECODE_FAIL_MIC, DECODED}

\* Both have run on a frame with one payload bit inverted: the revised
\* one refused it, the legacy one emitted a record.
C9_Witness ==
    /\ noise.kind = "flip" /\ noise.byte \in 2..13
    /\ Ran("scmp_decode") /\ res["scmp_decode"].ret = DECODE_FAIL_MIC
    /\ Emitted("legacy_scmp_decode")

\* The stages of a decoder in the order the design gives them.
Stages ==
    <<"length", "preamble", "crc16", "compare", "extract", "data_make",
      "decoder_output_data">>

StageNo(stage) == CHOOSE n \in 1..Len(Stages) : Stages[n] = stage

\* The outcome the row by itself calls for.
ExpectedRet(d) ==
    IF ~RightLength(d) THEN DECODE_ABORT_LENGTH
    ELSE IF PreambleDiffers(d) THEN DECODE_ABORT_EARLY
    ELSE IF d = "scmp_decode" /\ noise.kind = "flip" THEN DECODE_FAIL_MIC
    ELSE DECODED

LastStage(ret) ==
    IF ret = DECODE_ABORT_LENGTH THEN "length"
    ELSE IF ret = DECODE_ABORT_EARLY THEN "preamble"
    ELSE IF ret = DECODE_FAIL_MIC THEN "compare"
    ELSE "decoder_output_data"

\* C10: over any sequence of invocations each one ends in exactly one of
\* length mismatch, preamble mismatch, checksum mismatch and decoded, the
\* one its own row calls for, after going through length, preamble,
\* checksum and extraction in that order; it hands one record to
\* decoder_output_data when it returns 1 and none otherwise, so that the
\* records emitted always number the decoded outcomes.
C10_OutcomesAndOutput ==
    /\ n_output = n_decoded
    /\ n_decoded <= n_calls
    /\ \A d \in Decoders :
            Ran(d) =>
                LET t == res[d].trace IN
                /\ res[d].ret = ExpectedRet(d)
                /\ Len(res[d].out) = (IF res[d].ret = DECODED THEN 1 ELSE 0)
                /\ t[1] = "length"
                /\ t[Len(t)] = LastStage(res[d].ret)
                /\ \A i \in 1..(Len(t) - 1) : StageNo(t[i]) < StageNo(t[i + 1])

\* Two invocations, one decoded and one refused.
C10_Witness ==
    /\ n_calls >= 2
    /\ n_decoded >= 1
    /\ n_decoded < n_calls

====
